---- MODULE Spec2Model ----
(***************************************************************************)
(* Model of mcp-server-email/src/server.py: the cached Gmail service       *)
(* (get_gmail_service), the tool dispatcher (call_tool) and the four tool  *)
(* handlers.  The persisted token file, the credentials artifact, the      *)
(* authorization server and the remote mailbox are the environment: their  *)
(* outcomes are chosen nondeterministically inside each handler action.    *)
(*                                                                         *)
(* Handlers are coroutines without any await between entry and return, so  *)
(* one call_tool invocation is one atomic step.                            *)
(*                                                                         *)
(* googleapiclient.discovery.build is taken to succeed (static discovery   *)
(* document, no I/O).  Counters count the authorization steps issued by    *)
(* get_gmail_service itself (server.py lines 72, 82, 85).                  *)
(***************************************************************************)
EXTENDS Integers, Sequences, FiniteSets, TLC

----------------------------------------------------------------------------
(* Bounds *)

MaxCalls == 2          \* tool calls per process run
MaxMsgs == 2           \* messages in the remote mailbox
MaxParts == 2          \* parts of one message

(* Program constants *)

MAX_EMAILS == 50       \* MAX_EMAILS_PER_REQUEST default
DefaultLimit == 10     \* args.get("limit", 10)

ErrorMarker == "[ERROR]"
DefaultMailbox == "INBOX"

Ids == 1..MaxMsgs

----------------------------------------------------------------------------
(* Persisted token record and credentials, as seen through                 *)
(* google.oauth2.credentials.Credentials.                                  *)

\* what token_path can hold: no file, undecodable data, or a record
NoFile == [state |-> "absent", token |-> FALSE, expired |-> FALSE,
           refresh_token |-> FALSE, gen |-> 0]
CorruptFile == [state |-> "corrupt", token |-> FALSE, expired |-> FALSE,
                refresh_token |-> FALSE, gen |-> 0]
Record(tok, exp, rt, g) == [state |-> "record", token |-> tok, expired |-> exp,
                            refresh_token |-> rt, gen |-> g]

\* creds = None
NoCreds == [state |-> "none", token |-> FALSE, expired |-> FALSE,
            refresh_token |-> FALSE, gen |-> 0]

\* _gmail_service = None
None == [built |-> FALSE, creds |-> NoCreds]

\* build('gmail', 'v1', credentials=creds)
build(creds) == [built |-> TRUE, creds |-> creds]

\* variant: a token counts as valid only if it can also be refreshed
valid_refreshable(c) == c.token /\ ~c.expired /\ c.refresh_token

\* Credentials.valid: an access token that has not expired
valid(c) == c.token /\ ~c.expired

\* Credentials.from_authorized_user_file(token_path): the in-memory copy
from_authorized_user_file(tf) == [tf EXCEPT !.state = "creds"]

\* creds.to_json() written by write_text and read back by the next load
to_json(c) == [c EXCEPT !.state = "record"]

\* creds.refresh(Request()) when the server grants it: new access token
refreshed(c, g) == [c EXCEPT !.token = TRUE, !.expired = FALSE, !.gen = g]

\* flow.run_local_server(port=0) when the user consents: a fresh record
consented(rt, g) == [state |-> "creds", token |-> TRUE, expired |-> FALSE,
                     refresh_token |-> rt, gen |-> g]

----------------------------------------------------------------------------
(* Events of one call, in program order *)

Ev(op) == [op |-> op, id |-> 0, hasMax |-> FALSE, max |-> 0, q |-> <<>>]
EvId(op, i) == [op |-> op, id |-> i, hasMax |-> FALSE, max |-> 0, q |-> <<>>]
EvList(q, hasMax, max) == [op |-> "list", id |-> 0, hasMax |-> hasMax,
                           max |-> max, q |-> q]

\* not an exception: the process is gone, nothing is raised or returned
ProcessKilled == "ProcessKilled"

\* outcomes of the authorization environment for one call
AuthEnv == [refresh : {"ok", "fail"}, consent : {"ok", "fail"},
            write : {"ok", "untouched", "partial", "killed"}, rt : BOOLEAN]

\* what get_gmail_service leaves behind: the cache, the token file, the
\* exception it raised ("none" when it returned), the value it returned,
\* its events, and how many refresh calls, consent flows, completed writes
\* and newly issued tokens it accounts for
AuthResult(svc, tf, err, evs, nr, nc, nw, nm) ==
    [service |-> svc, tokenFile |-> tf, raised |-> err, events |-> evs,
     refreshes |-> nr, consents |-> nc, writes |-> nw, minted |-> nm]

\* variant: the new record never reaches the token file
write_text_skipped(tf, creds, outcome) == tf

\* token_path.write_text(creds.to_json()): open-for-truncate, then write.
\* "untouched": the open fails; "partial": the write stops part-way with an
\* error; "killed": the process dies after the truncation, before the write
\* is complete.
write_text(tf, creds, outcome) ==
    CASE outcome = "ok" -> to_json(creds)
      [] outcome = "untouched" -> tf
      [] OTHER -> CorruptFile

\* variant: the service is built and cached before the token is saved
SaveAndBuild_cacheFirst(tf, creds, e, evs, nr, nc) ==
    IF e.write = "ok"
    THEN AuthResult(build(creds), write_text(tf, creds, e.write), "none",
                    evs \o <<Ev("build"), Ev("write")>>, nr, nc, 1, 1)
    ELSE AuthResult(build(creds), write_text(tf, creds, e.write), "OSError",
                    evs \o <<Ev("build"), Ev("write"), Ev("write_failed")>>,
                    nr, nc, 0, 1)

\* lines 84-90: save the token, then build and cache the service
SaveAndBuild(tf, creds, e, evs, nr, nc) ==
    IF e.write = "ok"
    THEN AuthResult(build(creds), write_text(tf, creds, e.write), "none",
                    evs \o <<Ev("write"), Ev("build")>>, nr, nc, 1, 1)
    ELSE IF e.write = "killed"
    THEN AuthResult(None, write_text(tf, creds, e.write), ProcessKilled,
                    evs \o <<Ev("write"), Ev("write_failed"), Ev("killed")>>,
                    nr, nc, 0, 1)
    ELSE AuthResult(None, write_text(tf, creds, e.write), "OSError",
                    evs \o <<Ev("write"), Ev("write_failed")>>, nr, nc, 0, 1)

\* variant: the token file is read without the exists() test
load_token_strict(tf) ==
    IF tf.state = "record"
    THEN [raised |-> "none", creds |-> from_authorized_user_file(tf),
          events |-> <<Ev("load")>>]
    ELSE [raised |-> "ValueError", creds |-> NoCreds,
          events |-> <<Ev("load")>>]

\* lines 64-66: load the existing token; a missing file leaves creds = None,
\* undecodable contents make from_authorized_user_file raise
load_token(tf) ==
    CASE tf.state = "record" ->
            [raised |-> "none", creds |-> from_authorized_user_file(tf),
             events |-> <<Ev("load")>>]
      [] tf.state = "absent" ->
            [raised |-> "none", creds |-> NoCreds, events |-> <<>>]
      [] OTHER ->
            [raised |-> "ValueError", creds |-> NoCreds,
             events |-> <<Ev("load")>>]

\* variant: a failed refresh falls through to the consent flow
Acquire_fallThrough(tf, creds, cf, g, e, evs) ==
    LET refreshable == creds.state # "none" /\ creds.expired
                       /\ creds.refresh_token
        evs1 == IF refreshable
                THEN evs \o <<Ev("refresh"), Ev("refresh_failed")>> ELSE evs
        nr == IF refreshable THEN 1 ELSE 0
    IN IF refreshable /\ e.refresh = "ok"
       THEN SaveAndBuild(tf, refreshed(creds, g), e,
                         evs \o <<Ev("refresh")>>, 1, 0)
       ELSE IF ~cf
            THEN AuthResult(None, tf, "FileNotFoundError", evs1, nr, 0, 0, 0)
            ELSE IF e.consent = "ok"
                 THEN SaveAndBuild(tf, consented(e.rt, g), e,
                                   evs1 \o <<Ev("consent")>>, nr, 1)
                 ELSE AuthResult(None, tf, "ConsentError",
                                 evs1 \o <<Ev("consent"), Ev("consent_failed")>>,
                                 nr, 1, 0, 0)

\* lines 70-82: refresh an expired token, else run the consent flow
Acquire(tf, creds, cf, g, e, evs) ==
    IF creds.state # "none" /\ creds.expired /\ creds.refresh_token
    THEN IF e.refresh = "ok"
         THEN SaveAndBuild(tf, refreshed(creds, g), e,
                           evs \o <<Ev("refresh")>>, 1, 0)
         ELSE AuthResult(None, tf, "RefreshError",
                         evs \o <<Ev("refresh"), Ev("refresh_failed")>>,
                         1, 0, 0, 0)
    ELSE IF ~cf
         THEN AuthResult(None, tf, "FileNotFoundError", evs, 0, 0, 0, 0)
         ELSE IF e.consent = "ok"
              THEN SaveAndBuild(tf, consented(e.rt, g), e,
                                evs \o <<Ev("consent")>>, 0, 1)
              ELSE AuthResult(None, tf, "ConsentError",
                              evs \o <<Ev("consent"), Ev("consent_failed")>>,
                              0, 1, 0, 0)

\* variant: the cache test of lines 56-57 is missing
get_gmail_service_nocache(svc, tf, cf, g, e) ==
    LET l == load_token(tf)
    IN IF l.raised # "none"
       THEN AuthResult(None, tf, l.raised, l.events, 0, 0, 0, 0)
       ELSE IF l.creds.state = "none" \/ ~valid(l.creds)
       THEN Acquire(tf, l.creds, cf, g, e, l.events)
       ELSE AuthResult(build(l.creds), tf, "none",
                       l.events \o <<Ev("build")>>, 0, 0, 0, 0)

\* get_gmail_service(), lines 52-90.  svc: _gmail_service, tf: token file,
\* cf: credentials file exists, g: generation of the next issued token.
get_gmail_service(svc, tf, cf, g, e) ==
    IF svc.built
    THEN AuthResult(svc, tf, "none", <<>>, 0, 0, 0, 0)
    ELSE LET l == load_token(tf)
         IN IF l.raised # "none"
            THEN AuthResult(None, tf, l.raised, l.events, 0, 0, 0, 0)
            ELSE IF l.creds.state = "none" \/ ~valid(l.creds)
            THEN Acquire(tf, l.creds, cf, g, e, l.events)
            ELSE AuthResult(build(l.creds), tf, "none",
                            l.events \o <<Ev("build")>>, 0, 0, 0, 0)

\* every way one get_gmail_service() call can go from the given state
AuthOutcomes(svc, tf, cf, g) ==
    {get_gmail_service(svc, tf, cf, g, e) : e \in AuthEnv}

\* a handler that fails before its try block never calls get_gmail_service
NoAuth(svc, tf) == AuthResult(svc, tf, "none", <<>>, 0, 0, 0, 0)

----------------------------------------------------------------------------
(* Tool arguments: a mapping from field names to JSON values *)

PyStr(s) == [t |-> "str", s |-> s]
PyInt(n) == [t |-> "int", n |-> n]
PyBool(b) == [t |-> "bool", b |-> b]
PyNone == [t |-> "none"]

NoArgs == [k \in {} |-> PyNone]

\* args.get(k, d)
\* variant: an omitted field reads as None, the default is not applied
Get_nodefault(args, k, d) == IF k \in DOMAIN args THEN args[k] ELSE PyNone

Get(args, k, d) == IF k \in DOMAIN args THEN args[k] ELSE d

\* variant: the requested value is used as it is
Min_unclamped(a, b) == a

\* min(a, b) on integers
Min(a, b) == IF a <= b THEN a ELSE b

\* str.lower() on the mailbox names used here
lower(s) == CASE s = "INBOX" -> "inbox"
              [] s = "Sent" -> "sent"
              [] OTHER -> s

\* a field that may be omitted
Opt(k, vals) == {NoArgs} \cup {k :> v : v \in vals}

MailboxVals == {PyStr("INBOX"), PyStr("Sent"), PyNone}
LimitVals == {PyInt(-1), PyInt(0), PyInt(1), PyInt(2), PyInt(DefaultLimit),
              PyInt(MAX_EMAILS), PyInt(MAX_EMAILS + 1), PyInt(2 * MAX_EMAILS),
              PyStr("ten")}
UnreadVals == {PyBool(FALSE), PyBool(TRUE)}

SendEmailArgs == {a @@ b @@ c : a \in Opt("to", {PyStr("a@x")}),
                                b \in Opt("subject", {PyStr("Invoice")}),
                                c \in Opt("body", {PyStr("hello")})}
ReadInboxArgs == {a @@ b @@ c : a \in Opt("mailbox", MailboxVals),
                                b \in Opt("limit", LimitVals),
                                c \in Opt("unread_only", UnreadVals)}
SearchEmailsArgs == {a @@ b @@ c : a \in Opt("query", {PyStr("Invoice")}),
                                   b \in Opt("mailbox", MailboxVals),
                                   c \in Opt("limit", LimitVals)}
MarkAsReadArgs == {a @@ b : a \in Opt("subject", {PyStr("Invoice")}),
                            b \in Opt("mailbox", MailboxVals)}

\* list_tools(), lines 117-210: the required fields of each tool, given a
\* value, and the defaults its inputSchema documents for the optional ones
Required(name) ==
    CASE name = "send_email" -> ("to" :> PyStr("a@x")) @@
                                ("subject" :> PyStr("Invoice")) @@
                                ("body" :> PyStr("hello"))
      [] name = "read_inbox" -> NoArgs
      [] name = "search_emails" -> ("query" :> PyStr("Invoice"))
      [] name = "mark_as_read" -> ("subject" :> PyStr("Invoice"))
Documented(name) ==
    CASE name = "send_email" -> NoArgs
      [] name = "read_inbox" -> ("mailbox" :> PyStr("INBOX")) @@
                                ("limit" :> PyInt(10)) @@
                                ("unread_only" :> PyBool(FALSE))
      [] name = "search_emails" -> ("mailbox" :> PyStr("INBOX")) @@
                                   ("limit" :> PyInt(10))
      [] name = "mark_as_read" -> ("mailbox" :> PyStr("INBOX"))

\* the arguments used in a multi-call process run
Full == ("to" :> PyStr("a@x")) @@ ("subject" :> PyStr("Invoice")) @@
        ("body" :> PyStr("hello"))
RunSendArgs == {Full, NoArgs}
RunReadArgs == {"limit" :> PyInt(1),
                ("limit" :> PyInt(1)) @@ ("unread_only" :> PyBool(TRUE))}
RunSearchArgs == {("query" :> PyStr("Invoice")) @@ ("limit" :> PyInt(1))}
RunMarkArgs == {"subject" :> PyStr("Invoice")}

ToolNames == {"send_email", "read_inbox", "search_emails", "mark_as_read"}
OtherNames == {"delete_email", "send"}

----------------------------------------------------------------------------
(* Results of one call_tool invocation *)

\* TextContent.text: its leading literal, then what the f-string fills in
Text(head, n, emails, detail) ==
    [head |-> head, n |-> n, emails |-> emails, detail |-> detail]
NoText == Text("", 0, <<>>, "")

\* the exception leaves the handler (and call_tool)
Raised(err, auth, unr) ==
    [result |-> "raised", text |-> NoText, err |-> err, auth |-> auth,
     authCalled |-> FALSE, events |-> <<>>, unread |-> unr]

\* variant: the except block lets the exception go on
ErrorOut_reraise(what, err, auth, evs, unr) ==
    [result |-> "raised", text |-> [head |-> "", n |-> 0, emails |-> <<>>,
                                    detail |-> ""],
     err |-> err, auth |-> auth, authCalled |-> TRUE,
     events |-> auth.events \o evs, unread |-> unr]

\* except Exception as e: return [TextContent(text=f"[ERROR] {what}: {e}")];
\* a killed process reaches no except block and returns nothing
ErrorOut(what, err, auth, evs, unr) ==
    IF err = ProcessKilled
    THEN [result |-> "crashed", text |-> NoText, err |-> err, auth |-> auth,
          authCalled |-> TRUE, events |-> auth.events \o evs, unread |-> unr]
    ELSE [result |-> "text", text |-> Text(ErrorMarker, 0, <<>>, what),
          err |-> err, auth |-> auth, authCalled |-> TRUE,
          events |-> auth.events \o evs, unread |-> unr]

\* return [TextContent(type="text", text=...)]
Ok(text, auth, evs, unr) ==
    [result |-> "text", text |-> text, err |-> "none", auth |-> auth,
     authCalled |-> TRUE, events |-> auth.events \o evs, unread |-> unr]

----------------------------------------------------------------------------
(* The remote mailbox *)

\* sequences over S without repetition
InjSeqs(S) ==
    {s \in UNION {[1..n -> S] : n \in 0..Cardinality(S)} :
        \A i, j \in DOMAIN s : i # j => s[i] # s[j]}

\* users().messages().list(q, maxResults).execute(): an HttpError, or some
\* of the matching identifiers, at most maxResults of them when it is given
\* and positive
ListOutcomes(pool, hasMax, max) ==
    {[ok |-> FALSE, ids |-> <<>>]} \cup
    {[ok |-> TRUE, ids |-> s] : s \in
        {t \in InjSeqs(pool) : (hasMax /\ max >= 1) => Len(t) <= max}}

\* variant: the loop leaves the last identifier out
PerMessage_offByOne(op, ids, k) == [i \in 1..(k - 1) |-> EvId(op, ids[i])]

\* the get (or modify) calls issued for ids[1..k]
PerMessage(op, ids, k) == [i \in 1..k |-> EvId(op, ids[i])]

\* results.get('messages', []): the identifiers a successful list returned
Listed(ids) == [i \in DOMAIN ids |-> EvId("listed", ids[i])]

\* message texts, and their transport encoding: URL-safe base64 is a tagged
\* wrapper that urlsafe_b64decode(...).decode() takes off again
Texts == {"hello", " hello\n", ""}
b64(t) == <<"b64", t>>
b64decode(d) == d[2]

\* str.strip() on the texts used here
strip(t) == CASE t = " hello\n" -> "hello"
              [] OTHER -> t

\* one element of payload['parts']: its mimeType and its body, which holds
\* 'data' or does not (an empty part, or one stored as an attachment)
Part(mimeType, hasData, data) ==
    [mimeType |-> mimeType, hasData |-> hasData, data |-> data]
MimeTypes == {"text/plain", "text/html", "multipart/alternative"}
Parts == {Part(m, FALSE, b64("")) : m \in MimeTypes} \cup
         {Part(m, TRUE, b64(t)) : m \in MimeTypes, t \in Texts}

\* a message as messages().get(format='full') returns it: the header list
\* (a name -> value mapping over some of the header names), the parts array
\* when there is one, and the payload body with or without 'data'
HeaderNames == {"From", "To", "Subject", "Date"}
HeaderValue(h) == CASE h = "From" -> "alice@x"
                    [] h = "To" -> "bob@x"
                    [] h = "Subject" -> "Invoice"
                    [] h = "Date" -> "Mon"
FullMessage(id, hs, hasParts, parts, hasBody, hasData, data) ==
    [id |-> id, headers |-> [h \in hs |-> HeaderValue(h)],
     hasParts |-> hasParts, parts |-> parts,
     hasBody |-> hasBody, hasData |-> hasData, data |-> data]

\* index of the first text/plain part of a parts array, 0 when there is none
FirstPlain(parts) ==
    IF \E i \in DOMAIN parts : parts[i].mimeType = "text/plain"
    THEN CHOOSE i \in DOMAIN parts :
            /\ parts[i].mimeType = "text/plain"
            /\ \A j \in 1..(i - 1) : parts[j].mimeType # "text/plain"
    ELSE 0

\* headers.get(name, '')
Header(msg, h) == IF h \in DOMAIN msg.headers THEN msg.headers[h] ELSE ""

Normalized(id, from, to, subject, date, body) ==
    [id |-> id, from |-> from, to |-> to, subject |-> subject,
     date |-> date, body |-> body]
NoMessage == Normalized(0, "", "", "", "", "")
NotParsed == [raised |-> "not called", value |-> NoMessage]

\* parse_gmail_message(msg), lines 93-114: the normalized record, or the
\* KeyError of part['body']['data'] on a text/plain part without data
parse_gmail_message(msg) ==
    LET p == FirstPlain(msg.parts)
        fails == msg.hasParts /\ p # 0 /\ ~msg.parts[p].hasData
        body == IF msg.hasParts
                THEN IF p # 0 THEN b64decode(msg.parts[p].data) ELSE ""
                ELSE IF msg.hasBody /\ msg.hasData
                     THEN b64decode(msg.data) ELSE ""
    IN IF fails
       THEN [raised |-> "KeyError", value |-> NoMessage]
       ELSE [raised |-> "none",
             value |-> Normalized(msg.id, Header(msg, "From"),
                                  Header(msg, "To"), Header(msg, "Subject"),
                                  Header(msg, "Date"), strip(body))]

\* what the mailbox holds for an identifier: a single-part message for the
\* odd identifiers, a multipart one (html first) for the even ones
StoredMessage(id) ==
    IF id % 2 = 1
    THEN FullMessage(id, HeaderNames, FALSE, <<>>, TRUE, TRUE, b64(" hello\n"))
    ELSE FullMessage(id, HeaderNames \ {"To"}, TRUE,
                     <<Part("text/html", TRUE, b64("hello")),
                       Part("text/plain", TRUE, b64("hello"))>>,
                     TRUE, FALSE, b64(""))

\* the same message when its text part comes without data
EmptyPartMessage(id) ==
    FullMessage(id, HeaderNames, TRUE, <<Part("text/plain", FALSE, b64(""))>>,
                TRUE, FALSE, b64(""))

\* what can end the fetch loop early: the get call raises, or the message
\* it returns makes parse_gmail_message raise
FetchFailures ==
    {"HttpError"} \cup
    ({parse_gmail_message(EmptyPartMessage(1)).raised} \ {"none"})

\* variant: each parsed message is put in front of the ones before it
FetchLoop_reversed(ids, failAt, kind) ==
    [ok |-> failAt = 0,
     err |-> IF failAt = 0 THEN "none" ELSE kind,
     events |-> IF failAt = 0 THEN PerMessage("get", ids, Len(ids))
                ELSE PerMessage("get", ids, failAt) \o
                     <<EvId(IF kind = "HttpError" THEN "get_failed"
                            ELSE "parse_failed", ids[failAt])>>,
     emails |-> LET n == IF failAt = 0 THEN Len(ids) ELSE failAt - 1
                IN [i \in 1..n |->
                       parse_gmail_message(StoredMessage(ids[n + 1 - i])).value]]

\* the fetch loop of read_inbox_tool / search_emails_tool, lines 294-301:
\* failAt = 0 when every get and parse succeeds, else the index of the
\* message whose get (kind "HttpError") or parse (any other kind) fails
FetchLoop(ids, failAt, kind) ==
    [ok |-> failAt = 0,
     err |-> IF failAt = 0 THEN "none" ELSE kind,
     events |-> IF failAt = 0 THEN PerMessage("get", ids, Len(ids))
                ELSE PerMessage("get", ids, failAt) \o
                     <<EvId(IF kind = "HttpError" THEN "get_failed"
                            ELSE "parse_failed", ids[failAt])>>,
     emails |-> [i \in 1..(IF failAt = 0 THEN Len(ids) ELSE failAt - 1) |->
                    parse_gmail_message(StoredMessage(ids[i])).value]]

\* variant: a failed modify is skipped and the loop goes on
ModifyLoop_continue(ids, failAt, unr) ==
    [ok |-> failAt = 0,
     events |-> IF failAt = 0 THEN PerMessage("modify", ids, Len(ids))
                ELSE PerMessage("modify", ids, failAt) \o
                     <<EvId("modify_failed", ids[failAt])>> \o
                     [i \in 1..(Len(ids) - failAt) |->
                         EvId("modify", ids[failAt + i])],
     unread |-> unr \ {ids[i] : i \in (1..Len(ids)) \ {failAt}}]

\* the loop of mark_as_read_tool, lines 394-399: one modify per identifier,
\* each removing the UNREAD label; failAt = 0 when every modify succeeds,
\* else the index of the modify that raises
ModifyLoop(ids, failAt, unr) ==
    [ok |-> failAt = 0,
     events |-> IF failAt = 0 THEN PerMessage("modify", ids, Len(ids))
                ELSE PerMessage("modify", ids, failAt) \o
                     <<EvId("modify_failed", ids[failAt])>>,
     unread |-> unr \ {ids[i] : i \in
                    1..(IF failAt = 0 THEN Len(ids) ELSE failAt - 1)}]

----------------------------------------------------------------------------
(* Tool handlers: the set of outcomes of one invocation *)

\* send_email_tool(args), lines 229-263
send_email_tool(args, svc, tf, cf, g, unr) ==
    IF ~({"to", "subject", "body"} \subseteq DOMAIN args)
    THEN {Raised("KeyError", NoAuth(svc, tf), unr)}
    ELSE UNION {
        IF a.raised # "none"
        THEN {ErrorOut("Failed to send email", a.raised, a, <<>>, unr)}
        ELSE {ErrorOut("Failed to send email", "HttpError", a,
                       <<Ev("send"), Ev("send_failed")>>, unr),
              Ok(Text("Email sent successfully to", 0, <<>>, args["to"].s),
                 a, <<Ev("send")>>, unr)}
        : a \in AuthOutcomes(svc, tf, cf, g)}

\* variant: an empty listing is not tested for, it is formatted like any other
ListAndFetch_noEmptyCase(what, none, found, q, limit, pool, a, unr) ==
    UNION {
        IF ~l.ok
        THEN {ErrorOut(what, "HttpError", a,
                       <<EvList(q, TRUE, limit), Ev("list_failed")>>, unr)}
        ELSE {LET f == FetchLoop(l.ids, k, kind)
              IN IF f.ok
                 THEN Ok(Text(found, Len(f.emails), f.emails, ""), a,
                         <<EvList(q, TRUE, limit)>> \o Listed(l.ids)
                             \o f.events, unr)
                 ELSE ErrorOut(what, f.err, a,
                               <<EvList(q, TRUE, limit)>> \o Listed(l.ids)
                                   \o f.events, unr)
              : k \in 0..Len(l.ids), kind \in FetchFailures}
        : l \in ListOutcomes(pool, TRUE, limit)}

\* lines 283-312 and 337-365: list, then fetch each message
ListAndFetch(what, none, found, q, limit, pool, a, unr) ==
    UNION {
        IF ~l.ok
        THEN {ErrorOut(what, "HttpError", a,
                       <<EvList(q, TRUE, limit), Ev("list_failed")>>, unr)}
        ELSE IF l.ids = <<>>
        THEN {Ok(Text(none, 0, <<>>, ""), a, <<EvList(q, TRUE, limit)>>, unr)}
        ELSE {LET f == FetchLoop(l.ids, k, kind)
              IN IF f.ok
                 THEN Ok(Text(found, Len(f.emails), f.emails, ""), a,
                         <<EvList(q, TRUE, limit)>> \o Listed(l.ids)
                             \o f.events, unr)
                 ELSE ErrorOut(what, f.err, a,
                               <<EvList(q, TRUE, limit)>> \o Listed(l.ids)
                                   \o f.events, unr)
              : k \in 0..Len(l.ids), kind \in FetchFailures}
        : l \in ListOutcomes(pool, TRUE, limit)}

\* read_inbox_tool(args), lines 266-319
read_inbox_tool(args, svc, tf, cf, g, unr) ==
    LET mailbox == Get(args, "mailbox", PyStr(DefaultMailbox))
        rawLimit == Get(args, "limit", PyInt(DefaultLimit))
        unread_only == Get(args, "unread_only", PyBool(FALSE))
    IN IF rawLimit.t # "int"
       THEN {Raised("TypeError", NoAuth(svc, tf), unr)}
       ELSE LET limit == Min(rawLimit.n, MAX_EMAILS)
            IN UNION {
                IF a.raised # "none"
                THEN {ErrorOut("Failed to read inbox", a.raised, a, <<>>, unr)}
                ELSE IF mailbox.t # "str"
                THEN {ErrorOut("Failed to read inbox", "AttributeError", a,
                               <<>>, unr)}
                ELSE ListAndFetch("Failed to read inbox", "No emails found",
                        "Found",
                        <<<<"in", lower(mailbox.s)>>>> \o
                            (IF unread_only.b THEN <<<<"is", "unread">>>>
                             ELSE <<>>),
                        limit, IF unread_only.b THEN unr ELSE Ids, a, unr)
                : a \in AuthOutcomes(svc, tf, cf, g)}

\* search_emails_tool(args), lines 322-372
search_emails_tool(args, svc, tf, cf, g, unr) ==
    IF "query" \notin DOMAIN args
    THEN {Raised("KeyError", NoAuth(svc, tf), unr)}
    ELSE
    LET query == args["query"]
        mailbox == Get(args, "mailbox", PyStr(DefaultMailbox))
        rawLimit == Get(args, "limit", PyInt(DefaultLimit))
    IN IF rawLimit.t # "int"
       THEN {Raised("TypeError", NoAuth(svc, tf), unr)}
       ELSE LET limit == Min(rawLimit.n, MAX_EMAILS)
            IN UNION {
                IF a.raised # "none"
                THEN {ErrorOut("Failed to search", a.raised, a, <<>>, unr)}
                ELSE IF mailbox.t # "str"
                THEN {ErrorOut("Failed to search", "AttributeError", a,
                               <<>>, unr)}
                ELSE ListAndFetch("Failed to search",
                        "No emails found matching", "Found",
                        <<<<"in", lower(mailbox.s)>>, <<"subject", query.s>>>>,
                        limit, Ids, a, unr)
                : a \in AuthOutcomes(svc, tf, cf, g)}

\* mark_as_read_tool(args), lines 375-411
mark_as_read_tool(args, svc, tf, cf, g, unr) ==
    IF "subject" \notin DOMAIN args
    THEN {Raised("KeyError", NoAuth(svc, tf), unr)}
    ELSE
    LET subject == args["subject"]
        mailbox == Get(args, "mailbox", PyStr(DefaultMailbox))
        what == "Failed to mark as read"
    IN UNION {
        IF a.raised # "none"
        THEN {ErrorOut(what, a.raised, a, <<>>, unr)}
        ELSE IF mailbox.t # "str"
        THEN {ErrorOut(what, "AttributeError", a, <<>>, unr)}
        ELSE LET q == <<<<"in", lower(mailbox.s)>>, <<"is", "unread">>,
                        <<"subject", subject.s>>>>
             IN UNION {
                 IF ~l.ok
                 THEN {ErrorOut(what, "HttpError", a,
                                <<EvList(q, FALSE, 0), Ev("list_failed")>>,
                                unr)}
                 ELSE IF l.ids = <<>>
                 THEN {Ok(Text("No unread emails found with subject", 0, <<>>,
                               subject.s), a, <<EvList(q, FALSE, 0)>>, unr)}
                 ELSE {LET m == ModifyLoop(l.ids, k, unr)
                       IN IF m.ok
                          THEN Ok(Text("Marked", Len(l.ids), <<>>, ""), a,
                                  <<EvList(q, FALSE, 0)>> \o Listed(l.ids)
                                      \o m.events, m.unread)
                          ELSE ErrorOut(what, "HttpError", a,
                                  <<EvList(q, FALSE, 0)>> \o Listed(l.ids)
                                      \o m.events, m.unread)
                       : k \in 0..Len(l.ids)}
                 : l \in ListOutcomes(unr, FALSE, 0)}
        : a \in AuthOutcomes(svc, tf, cf, g)}

----------------------------------------------------------------------------
(* State *)

VARIABLES
    gmail_service,  \* the module-level cache _gmail_service
    tokenFile,      \* contents of TOKEN_FILE
    credsFile,      \* CREDENTIALS_FILE exists
    unread,         \* identifiers carrying the UNREAD label in the mailbox
    issued,         \* tokens issued so far by the authorization server
    calls,          \* call_tool invocations so far
    refreshCalls,   \* creds.refresh() calls so far
    consentCalls,   \* flow.run_local_server() calls so far
    tokenWrites,    \* completed token_path.write_text() calls so far
    authFailures,   \* get_gmail_service() calls that raised so far
    last,           \* the most recent call_tool invocation
    msg,            \* the message handed to parse_gmail_message
    parsed,         \* what parse_gmail_message made of it
    pc,             \* where each request of the event loop stands
    pend,           \* the call each request in progress is carrying out
    running         \* the request that holds the thread, 0 when none does

\* the variables of the normalizer on its own, and of the event loop
parseVars == <<msg, parsed>>
loopVars == <<pc, pend, running>>

vars == <<gmail_service, tokenFile, credsFile, unread, issued, calls,
          refreshCalls, consentCalls, tokenWrites, authFailures, last,
          parseVars, loopVars>>

NoCall == [name |-> "", args |-> NoArgs, result |-> "none", text |-> NoText,
           err |-> "none", events |-> <<>>, authCalled |-> FALSE,
           authRaised |-> "none", session |-> None,
           preService |-> None, preToken |-> NoFile, preCreds |-> FALSE,
           postService |-> None, postToken |-> NoFile,
           preUnread |-> {}, postUnread |-> {}]

\* the requests the client has sent, each a coroutine of the event loop
Tasks == 1..MaxCalls
NoPending == [name |-> "", args |-> NoArgs,
              out |-> Raised("none", NoAuth(None, NoFile), {}),
              preService |-> None, preToken |-> NoFile, preCreds |-> FALSE,
              preUnread |-> {}]

TokenFiles == {NoFile, CorruptFile} \cup
              {Record(tok, exp, rt, 0) : tok, exp, rt \in BOOLEAN}

Init ==
    /\ gmail_service = None
    /\ tokenFile \in TokenFiles
    /\ credsFile \in BOOLEAN
    /\ unread = Ids
    /\ issued = 0
    /\ calls = 0
    /\ refreshCalls = 0
    /\ consentCalls = 0
    /\ tokenWrites = 0
    /\ authFailures = 0
    /\ last = NoCall
    /\ msg = StoredMessage(1)
    /\ parsed = NotParsed
    /\ pc = [t \in Tasks |-> "pending"]
    /\ pend = [t \in Tasks |-> NoPending]
    /\ running = 0

\* what is remembered of one call_tool invocation
CallRecord(name, args, out, preService, preToken, preCreds, preUnread) ==
    [name |-> name, args |-> args, result |-> out.result,
     text |-> out.text, err |-> out.err, events |-> out.events,
     authCalled |-> out.authCalled,
     authRaised |-> out.auth.raised,
     session |-> IF out.authCalled THEN out.auth.service ELSE None,
     preService |-> preService, preToken |-> preToken,
     preCreds |-> preCreds,
     postService |-> out.auth.service,
     postToken |-> out.auth.tokenFile,
     preUnread |-> preUnread, postUnread |-> out.unread]

\* the effect of one handler outcome on the process and its environment
Apply(name, args, out) ==
    /\ gmail_service' = out.auth.service
    /\ tokenFile' = out.auth.tokenFile
    /\ unread' = out.unread
    /\ issued' = issued + out.auth.minted
    /\ calls' = calls + 1
    /\ refreshCalls' = refreshCalls + out.auth.refreshes
    /\ consentCalls' = consentCalls + out.auth.consents
    /\ tokenWrites' = tokenWrites + out.auth.writes
    /\ authFailures' = authFailures +
          (IF out.auth.raised \notin {"none", ProcessKilled} THEN 1 ELSE 0)
    /\ last' = CallRecord(name, args, out, gmail_service, tokenFile,
                          credsFile, unread)
    /\ UNCHANGED <<credsFile, parseVars, loopVars>>

\* variant: the last branch is taken for every other name
call_tool_default(name, args, svc, tf, cf, g, unr) ==
    CASE name = "send_email" -> send_email_tool(args, svc, tf, cf, g, unr)
      [] name = "read_inbox" -> read_inbox_tool(args, svc, tf, cf, g, unr)
      [] name = "search_emails" -> search_emails_tool(args, svc, tf, cf, g, unr)
      [] OTHER -> mark_as_read_tool(args, svc, tf, cf, g, unr)

\* call_tool(name, arguments), lines 213-226: the outcomes of one dispatch
call_tool(name, args, svc, tf, cf, g, unr) ==
    CASE name = "send_email" -> send_email_tool(args, svc, tf, cf, g, unr)
      [] name = "read_inbox" -> read_inbox_tool(args, svc, tf, cf, g, unr)
      [] name = "search_emails" -> search_emails_tool(args, svc, tf, cf, g, unr)
      [] name = "mark_as_read" -> mark_as_read_tool(args, svc, tf, cf, g, unr)
      [] OTHER -> {Raised("ValueError", NoAuth(svc, tf), unr)}

\* one invocation of call_tool with arguments drawn from A, in a process
\* that is still running
Call(name, A) ==
    /\ last.result # "crashed"
    /\ \E args \in A :
          \E out \in call_tool(name, args, gmail_service, tokenFile,
                               credsFile, issued + 1, unread) :
              Apply(name, args, out)

\* a process run: up to MaxCalls tool calls with typical arguments
SendEmail == calls < MaxCalls /\ Call("send_email", RunSendArgs)
ReadInbox == calls < MaxCalls /\ Call("read_inbox", RunReadArgs)
SearchEmails == calls < MaxCalls /\ Call("search_emails", RunSearchArgs)
MarkAsRead == calls < MaxCalls /\ Call("mark_as_read", RunMarkArgs)
UnknownTool == calls < MaxCalls /\ \E name \in OtherNames : Call(name, RunSendArgs)

\* the clock passes the expiry of the persisted access token
Expire ==
    /\ tokenFile.state = "record"
    /\ ~tokenFile.expired
    /\ tokenFile' = [tokenFile EXCEPT !.expired = TRUE]
    /\ UNCHANGED <<gmail_service, credsFile, unread, issued, calls,
                   refreshCalls, consentCalls, tokenWrites, authFailures, last,
                   parseVars, loopVars>>

\* the operator deletes the token file to force a new authorization
DeleteTokenFile ==
    /\ tokenFile.state # "absent"
    /\ tokenFile' = NoFile
    /\ UNCHANGED <<gmail_service, credsFile, unread, issued, calls,
                   refreshCalls, consentCalls, tokenWrites, authFailures, last,
                   parseVars, loopVars>>

\* the operator downloads credentials.json, as the error message asks
ProvisionCredentials ==
    /\ ~credsFile
    /\ credsFile' = TRUE
    /\ UNCHANGED <<gmail_service, tokenFile, unread, issued, calls,
                   refreshCalls, consentCalls, tokenWrites, authFailures, last,
                   parseVars, loopVars>>

Next == SendEmail \/ ReadInbox \/ SearchEmails \/ MarkAsRead \/ UnknownTool
        \/ Expire \/ DeleteTokenFile \/ ProvisionCredentials

Spec == Init /\ [][Next]_vars

\* one tool call with any arguments mapping, from any initial state
AnySendEmail == calls = 0 /\ Call("send_email", SendEmailArgs)
AnyReadInbox == calls = 0 /\ Call("read_inbox", ReadInboxArgs)
AnySearchEmails == calls = 0 /\ Call("search_emails", SearchEmailsArgs)
AnyMarkAsRead == calls = 0 /\ Call("mark_as_read", MarkAsReadArgs)
AnyUnknown == calls = 0 /\ \E name \in OtherNames : Call(name, SendEmailArgs)

NextCall == AnySendEmail \/ AnyReadInbox \/ AnySearchEmails \/ AnyMarkAsRead
            \/ AnyUnknown

SpecCall == Init /\ [][NextCall]_vars

\* the normalizer applied to any message of up to MaxParts parts
Messages ==
    {FullMessage(1, hs, hasParts, parts, body[1], body[2], body[3]) :
        hs \in SUBSET HeaderNames,
        hasParts \in BOOLEAN,
        parts \in UNION {[1..n -> Parts] : n \in 0..MaxParts},
        body \in {<<FALSE, FALSE, b64("")>>, <<TRUE, FALSE, b64("")>>} \cup
                 {<<TRUE, TRUE, b64(t)>> : t \in Texts}}

InitParse ==
    /\ gmail_service = None
    /\ tokenFile = NoFile
    /\ credsFile = FALSE
    /\ unread = Ids
    /\ issued = 0
    /\ calls = 0
    /\ refreshCalls = 0
    /\ consentCalls = 0
    /\ tokenWrites = 0
    /\ authFailures = 0
    /\ last = NoCall
    /\ msg \in {m \in Messages : m.hasParts \/ m.parts = <<>>}
    /\ parsed = NotParsed
    /\ pc = [t \in Tasks |-> "pending"]
    /\ pend = [t \in Tasks |-> NoPending]
    /\ running = 0

ParseMessage ==
    /\ parsed = NotParsed
    /\ parsed' = parse_gmail_message(msg)
    /\ UNCHANGED <<gmail_service, tokenFile, credsFile, unread, issued, calls,
                   refreshCalls, consentCalls, tokenWrites, authFailures,
                   last, msg, loopVars>>

SpecParse == InitParse /\ [][ParseMessage]_vars

\* The event loop.  Each request is a coroutine running call_tool and one of
\* the handlers; the loop gives the thread to a coroutine and gets it back
\* when the coroutine returns or reaches an await.  A handler goes through
\* the positions "authorizing" (inside get_gmail_service, the token loaded
\* and the round-trip made), "remote" (the session in hand) and "returning".

\* variant: get_gmail_service is awaited while it refreshes the token
AwaitPoints_authorizing == {"authorizing"}

\* the positions at which a handler awaits: the four handlers and
\* get_gmail_service contain no await, every remote call is a blocking
\* .execute()
AwaitPoints == {}

\* the loop may run request t: it holds the thread, or the thread is free
\* and t has not started or waits at an await
Sched(t) ==
    /\ last.result # "crashed"
    /\ \/ running = t
       \/ running = 0 /\ pc[t] \in {"pending"} \cup AwaitPoints

\* who holds the thread once request t has moved to position p
Holder(t, p) == IF p \in {"done"} \cup AwaitPoints THEN 0 ELSE t

\* the requests served in a run of the loop: one that sends, one that
\* changes the mailbox, one that call_tool rejects
Requests ==
    {<<"send_email", Full>>} \cup
    {<<"mark_as_read", a>> : a \in RunMarkArgs} \cup
    {<<"delete_email", NoArgs>>}

HasEvent(evs, op) == \E i \in DOMAIN evs : evs[i].op = op

\* call_tool is entered: the arguments are read and, inside the try,
\* get_gmail_service tests the cache, loads the token file and makes its
\* round-trip; what the call will go on to do is fixed from here
Begin(t) ==
    /\ Sched(t)
    /\ pc[t] = "pending"
    /\ \E r \in Requests :
          \E out \in call_tool(r[1], r[2], gmail_service, tokenFile,
                               credsFile, issued + 1, unread) :
              LET p == IF out.authCalled THEN "authorizing" ELSE "returning"
              IN /\ pend' = [pend EXCEPT ![t] =
                               [name |-> r[1], args |-> r[2], out |-> out,
                                preService |-> gmail_service,
                                preToken |-> tokenFile,
                                preCreds |-> credsFile,
                                preUnread |-> unread]]
                 /\ pc' = [pc EXCEPT ![t] = p]
                 /\ running' = Holder(t, p)
    /\ UNCHANGED <<gmail_service, tokenFile, credsFile, unread, issued, calls,
                   refreshCalls, consentCalls, tokenWrites, authFailures,
                   last, parseVars>>

\* get_gmail_service finishes: the token file is written and the session
\* cached (lines 85-88), or the error leaves it
Persist(t) ==
    /\ Sched(t)
    /\ pc[t] = "authorizing"
    /\ LET a == pend[t].out.auth
           p == IF a.raised # "none" THEN "returning" ELSE "remote"
       IN /\ tokenFile' = IF HasEvent(a.events, "write") THEN a.tokenFile
                          ELSE tokenFile
          /\ gmail_service' = IF HasEvent(a.events, "build") THEN a.service
                              ELSE gmail_service
          /\ issued' = issued + a.minted
          /\ refreshCalls' = refreshCalls + a.refreshes
          /\ consentCalls' = consentCalls + a.consents
          /\ tokenWrites' = tokenWrites + a.writes
          /\ authFailures' = authFailures +
                (IF a.raised \notin {"none", ProcessKilled} THEN 1 ELSE 0)
          /\ pc' = [pc EXCEPT ![t] = p]
          /\ running' = Holder(t, p)
    /\ UNCHANGED <<credsFile, unread, calls, last, pend, parseVars>>

\* the remote mailbox calls of the handler, with the session in hand
Remote(t) ==
    /\ Sched(t)
    /\ pc[t] = "remote"
    /\ unread' = unread \ (pend[t].preUnread \ pend[t].out.unread)
    /\ pc' = [pc EXCEPT ![t] = "returning"]
    /\ running' = Holder(t, "returning")
    /\ UNCHANGED <<gmail_service, tokenFile, credsFile, issued, calls,
                   refreshCalls, consentCalls, tokenWrites, authFailures,
                   last, pend, parseVars>>

\* the handler returns its result (or raises) and the coroutine ends
Return(t) ==
    /\ Sched(t)
    /\ pc[t] = "returning"
    /\ last' = CallRecord(pend[t].name, pend[t].args, pend[t].out,
                          pend[t].preService, pend[t].preToken,
                          pend[t].preCreds, pend[t].preUnread)
    /\ calls' = calls + 1
    /\ pc' = [pc EXCEPT ![t] = "done"]
    /\ pend' = [pend EXCEPT ![t] = NoPending]
    /\ running' = 0
    /\ UNCHANGED <<gmail_service, tokenFile, credsFile, unread, issued,
                   refreshCalls, consentCalls, tokenWrites, authFailures,
                   parseVars>>

NextLoop == \E t \in Tasks : Begin(t) \/ Persist(t) \/ Remote(t) \/ Return(t)

SpecLoop == Init /\ [][NextLoop]_vars

----------------------------------------------------------------------------
(* Properties *)

\* the events of the most recent call
Has(op) == \E i \in DOMAIN last.events : last.events[i].op = op
Count(op) == Cardinality({i \in DOMAIN last.events : last.events[i].op = op})
Before(op1, op2) ==
    \A i, j \in DOMAIN last.events :
        (last.events[i].op = op1 /\ last.events[j].op = op2) => i < j

\* the most recent call ran get_gmail_service with an empty cache
Authorized == last.authCalled /\ ~last.preService.built

RoundTrips == refreshCalls + consentCalls

\* C1: once get_gmail_service has returned a session, every later call
\* returns that same cached session, issues no refresh call, starts no
\* consent flow and writes nothing to the token file.
C1_CachedSessionReused ==
    [][(gmail_service.built /\ calls' = calls + 1) =>
          /\ gmail_service' = gmail_service
          /\ (last'.authCalled => last'.session = gmail_service)
          /\ refreshCalls' = refreshCalls
          /\ consentCalls' = consentCalls
          /\ tokenWrites' = tokenWrites
          /\ tokenFile' = tokenFile
          /\ \A i \in DOMAIN last'.events :
                last'.events[i].op \notin {"load", "refresh", "consent",
                                           "write", "build"}]_vars

\* a call that found the session cached and used it, after the persisted
\* token has expired
C1_Witness ==
    /\ last.preService.built
    /\ last.authCalled
    /\ last.session = last.preService
    /\ last.preToken.state = "record" /\ last.preToken.expired

\* C2 as stated: over a whole process run, failed attempts included, at most
\* one refresh call or consent flow is performed, and at most one consent.
C2_AtMostOneRoundTrip == RoundTrips <= 1 /\ consentCalls <= 1

\* C2 amended: one get_gmail_service call performs at most one round-trip,
\* none is performed once a session is cached, and over a process run the
\* round-trips number at most one more than the failed authorization
\* attempts (each failed attempt is retried by the next tool call).
C2_OneRoundTripPerAttempt ==
    /\ [](RoundTrips <= authFailures + 1)
    /\ [][/\ RoundTrips' <= RoundTrips + 1
          /\ gmail_service.built => RoundTrips' = RoundTrips]_vars

\* two round-trips in one run: a failed attempt, then a successful retry
C2_Witness ==
    /\ RoundTrips = 2
    /\ authFailures >= 1
    /\ gmail_service.built

\* C3: with a valid, unexpired token record on file, get_gmail_service
\* returns a session built from that record with no refresh call, no consent
\* flow, no token-file write, and whether or not the credentials artifact
\* exists.
C3_ValidTokenNoRoundTrip ==
    (Authorized /\ last.preToken.state = "record" /\ last.preToken.token
        /\ ~last.preToken.expired) =>
        /\ last.authRaised = "none"
        /\ last.session = build(from_authorized_user_file(last.preToken))
        /\ last.postService = last.session
        /\ ~Has("refresh") /\ ~Has("consent") /\ ~Has("write")
        /\ last.postToken = last.preToken

\* a valid record without refresh token, and no credentials artifact
C3_Witness ==
    /\ Authorized
    /\ last.preToken.state = "record" /\ last.preToken.token
    /\ ~last.preToken.expired /\ ~last.preToken.refresh_token
    /\ ~last.preCreds
    /\ last.session.built

\* C4: with an expired record that has a refresh token, and the refresh
\* granted, get_gmail_service issues exactly one refresh call and no consent
\* flow, writes the updated record to the token file before it builds and
\* caches the session, and returns that session; a session is never cached
\* when the write did not complete.
C4_RefreshThenPersistThenCache ==
    (Authorized /\ last.preToken.state = "record" /\ last.preToken.expired
        /\ last.preToken.refresh_token /\ ~Has("refresh_failed")) =>
        /\ Count("refresh") = 1
        /\ ~Has("consent")
        /\ Count("write") = 1
        /\ Before("refresh", "write")
        /\ Before("write", "build")
        /\ IF Has("write_failed")
           THEN ~last.postService.built /\ ~Has("build")
           ELSE /\ last.authRaised = "none"
                /\ last.session.built
                /\ last.postService = last.session
                /\ valid(last.session.creds)
                /\ last.session.creds.gen > last.preToken.gen
                /\ last.postToken = to_json(last.session.creds)

\* an expired refreshable record, refreshed, saved and turned into a session
C4_Witness ==
    /\ Authorized
    /\ last.preToken.state = "record" /\ last.preToken.expired
    /\ last.preToken.refresh_token
    /\ Has("refresh") /\ Has("write") /\ ~Has("write_failed")
    /\ last.session.built
    /\ last.postToken = to_json(last.session.creds)

\* C5: when the refresh of an expired, refreshable record fails, the call
\* does not fail with the refresh error: it goes on to require the
\* credentials artifact and to run the consent flow.
C5_RefreshFailureFallsThrough ==
    (Authorized /\ Has("refresh_failed")) =>
        /\ last.authRaised # "RefreshError"
        /\ IF last.preCreds THEN Has("consent")
           ELSE last.authRaised = "FileNotFoundError"

\* the most recent call had no usable token record to start from
NoUsableRecord ==
    \/ last.preToken.state = "absent"
    \/ /\ last.preToken.state = "record"
       /\ ~valid(last.preToken)
       /\ ~(last.preToken.expired /\ last.preToken.refresh_token)

\* C6: without a usable token record and without the credentials artifact,
\* get_gmail_service fails with the missing-credentials error, starts no
\* consent flow, writes no token file and caches no session; and an absent
\* token file is not itself an error: with the artifact in place the call
\* goes on to the consent flow.
C6_MissingCredentials ==
    /\ (Authorized /\ NoUsableRecord /\ ~last.preCreds) =>
          /\ last.authRaised = "FileNotFoundError"
          /\ last.result = "text" /\ last.text.head = ErrorMarker
          /\ ~Has("consent") /\ ~Has("refresh") /\ ~Has("write")
          /\ last.postToken = last.preToken
          /\ ~last.postService.built
    /\ (Authorized /\ last.preToken.state = "absent") =>
          /\ ~Has("load")
          /\ last.authRaised # "ValueError"
          /\ last.preCreds => Has("consent")

\* no token file and no credentials artifact: the missing-credentials error
C6_Witness ==
    /\ Authorized
    /\ last.preToken.state = "absent"
    /\ ~last.preCreds
    /\ last.authRaised = "FileNotFoundError"

\* a remote mailbox call of the most recent call failed
RemoteFailed ==
    \E i \in DOMAIN last.events :
        last.events[i].op \in {"send_failed", "list_failed", "get_failed",
                               "modify_failed"}

\* C7: in each of the four tools, an error raised while obtaining the
\* session (corrupt token file, missing credentials artifact, failed refresh,
\* consent or token write) or during a remote mailbox call is returned as
\* one text result that starts with the error marker; call_tool does not
\* raise.  (A process killed during the token write raises and returns
\* nothing; that case is C14.)
C7_ErrorsBecomeEnvelopes ==
    (/\ last.name \in ToolNames
     /\ ~Has("killed")
     /\ (last.authRaised # "none" \/ RemoteFailed)) =>
        /\ last.result = "text"
        /\ last.text.head = ErrorMarker
        /\ last.err # "none"

\* a remote call failed on a cached session and came back as an envelope
C7_Witness ==
    /\ last.name = "mark_as_read"
    /\ last.preService.built
    /\ Has("modify_failed")
    /\ last.result = "text"
    /\ last.text.head = ErrorMarker

\* C8: for every registered tool and every arguments mapping, one that
\* omits a required field included, call_tool returns one text result and
\* does not raise.
C8_NeverRaisesForRegisteredTools ==
    (last.result \notin {"none", "crashed"} /\ last.name \in ToolNames)
        => last.result = "text"

\* C9: call_tool with an unregistered name raises the unknown-tool error,
\* returns no envelope, obtains no session and issues no authorization step
\* and no remote call.
C9_UnknownToolRaises ==
    (last.result # "none" /\ last.name \notin ToolNames) =>
        /\ last.result = "raised"
        /\ last.err = "ValueError"
        /\ last.text = NoText
        /\ ~last.authCalled
        /\ last.events = <<>>
        /\ last.postService = last.preService
        /\ last.postToken = last.preToken

\* an unregistered name, called while the token file would need a refresh
C9_Witness ==
    /\ last.name \in OtherNames
    /\ last.result = "raised"
    /\ last.preToken.state = "record" /\ last.preToken.expired
    /\ ~last.preService.built

\* the limit asked for in the most recent call, when it is an integer
AskedLimit == last.args["limit"].n
ListEvents == {i \in DOMAIN last.events : last.events[i].op = "list"}

\* C10: in read_inbox and search_emails, a requested limit above MAX_EMAILS
\* is passed to the identifier listing as exactly MAX_EMAILS and the call is
\* not rejected; a limit at or below MAX_EMAILS is passed unchanged.
C10_LimitClamped ==
    (/\ last.name \in {"read_inbox", "search_emails"}
     /\ "limit" \in DOMAIN last.args
     /\ last.args["limit"].t = "int") =>
        /\ \A i \in ListEvents :
              /\ last.events[i].hasMax
              /\ last.events[i].max <= MAX_EMAILS
              /\ last.events[i].max =
                    (IF AskedLimit > MAX_EMAILS THEN MAX_EMAILS ELSE AskedLimit)
        /\ (last.result = "raised") => (last.err = "KeyError")
        /\ (last.authCalled /\ last.authRaised = "none"
              /\ Get(last.args, "mailbox", PyStr(DefaultMailbox)).t = "str")
              => ListEvents # {}

\* a limit of twice the maximum, listed with the maximum, and answered
C10_Witness ==
    /\ last.name = "search_emails"
    /\ "limit" \in DOMAIN last.args
    /\ last.args["limit"] = PyInt(2 * MAX_EMAILS)
    /\ \E i \in ListEvents : last.events[i].max = MAX_EMAILS
    /\ last.result = "text" /\ last.text.head = "Found"

\* C11: for each of the four tools, a call that gives the required fields
\* and omits every optional one is not rejected (it returns a text result
\* and, once the session is there, reaches its remote call) and has exactly
\* the outcomes of the same call with the documented defaults written out
\* (mailbox "INBOX", limit 10, unread_only false), compared in the state
\* before a call and in the state such a call leaves; read_inbox with no
\* arguments lists in:inbox with maxResults 10 and no unread filter.
C11_OmittedIsDefault ==
    /\ (calls = 0 \/ (last.name \in ToolNames
                        /\ last.args = Required(last.name))) =>
          \A name \in ToolNames :
              call_tool(name, Required(name), gmail_service, tokenFile,
                        credsFile, issued, unread)
              = call_tool(name, Required(name) @@ Documented(name),
                          gmail_service, tokenFile, credsFile, issued, unread)
    /\ (/\ last.name \in ToolNames
        /\ last.args = Required(last.name)
        /\ ~Has("killed")) =>
          /\ last.result = "text"
          /\ (last.authRaised = "none" /\ last.name = "send_email")
                => Has("send")
          /\ (last.authRaised = "none" /\ last.name # "send_email")
                => ListEvents # {}
          /\ \A i \in ListEvents :
                /\ last.events[i].q[1] = <<"in", "inbox">>
                /\ last.name = "read_inbox" =>
                      /\ last.events[i].q = <<<<"in", "inbox">>>>
                      /\ last.events[i].hasMax /\ last.events[i].max = 10
                /\ last.name = "search_emails" =>
                      last.events[i].hasMax /\ last.events[i].max = 10

\* read_inbox called with no arguments at all, listed with the defaults and
\* answered with messages
C11_Witness ==
    /\ last.name = "read_inbox"
    /\ last.args = NoArgs
    /\ \E i \in ListEvents : last.events[i].max = 10
    /\ last.result = "text" /\ last.text.head = "Found"

\* the events of one kind in the most recent call, in program order, and the
\* message identifiers they carry
EventsOf(op) == SelectSeq(last.events, LAMBDA e : e.op = op)
IdsOf(op) == [i \in DOMAIN EventsOf(op) |-> EventsOf(op)[i].id]
ListSucceeded == Has("list") /\ ~Has("list_failed")

\* C12: when the listing of read_inbox or search_emails succeeds and returns
\* no identifier, the tool issues no get call and returns the "no emails
\* found" text of the tool as a success result, never an error envelope.
C12_EmptyListing ==
    (/\ last.name \in {"read_inbox", "search_emails"}
     /\ ListSucceeded
     /\ IdsOf("listed") = <<>>) =>
        /\ ~Has("get")
        /\ Count("list") = 1
        /\ last.result = "text"
        /\ last.err = "none"
        /\ last.text.head # ErrorMarker
        /\ last.text.head = (IF last.name = "read_inbox"
                             THEN "No emails found"
                             ELSE "No emails found matching")
        /\ last.text.emails = <<>>

\* an unread-only read_inbox when no message is unread any more
C12_Witness ==
    /\ last.name = "read_inbox"
    /\ last.preUnread = {}
    /\ ListSucceeded
    /\ ~Has("listed")
    /\ last.text.head = "No emails found"

\* C13: when the unread search of mark_as_read returns N identifiers and no
\* modify call fails, the tool issues exactly N modify calls, one per
\* identifier, every listed message loses its unread label and the result
\* reports the count N; with N = 0 it issues no modify call and returns a
\* success result.
C13_OneModifyPerMatch ==
    (last.name = "mark_as_read" /\ ListSucceeded /\ ~Has("modify_failed")) =>
        /\ IdsOf("modify") = IdsOf("listed")
        /\ Count("modify") = Count("listed")
        /\ last.postUnread =
              last.preUnread \ {IdsOf("listed")[i] : i \in
                                    DOMAIN IdsOf("listed")}
        /\ last.result = "text"
        /\ last.err = "none"
        /\ last.text.head # ErrorMarker
        /\ IF Has("listed")
           THEN last.text.head = "Marked" /\ last.text.n = Count("listed")
           ELSE last.text.head = "No unread emails found with subject"

\* every unread message matched, each modified once, the count reported
C13_Witness ==
    /\ last.name = "mark_as_read"
    /\ Count("listed") = MaxMsgs
    /\ Count("modify") = MaxMsgs
    /\ last.text.head = "Marked" /\ last.text.n = MaxMsgs
    /\ last.postUnread = {}

\* C14: a process killed while get_gmail_service rewrites the token file
\* leaves in the file either the complete record that was there before or
\* the complete new record, never a partial or undecodable one.
C14_SaveIsAtomic ==
    (Has("write") /\ Has("killed")) =>
        \/ last.postToken = last.preToken
        \/ /\ last.postToken.state = "record"
           /\ valid(last.postToken)
           /\ last.postToken.gen > last.preToken.gen

\* C15: read_inbox and search_emails issue one list call first and then the
\* get calls, one identifier at a time in the order of the listing; the get
\* calls issued are always a prefix of the listing, and a result that
\* reports messages holds exactly one entry per listed identifier, in
\* listing order.
C15_ListThenFetchInOrder ==
    (last.name \in {"read_inbox", "search_emails"} /\ Has("list")) =>
        LET listed == IdsOf("listed")
            got == IdsOf("get")
        IN /\ Count("list") = 1
           /\ Before("list", "listed") /\ Before("listed", "get")
           /\ Len(got) <= Len(listed)
           /\ got = SubSeq(listed, 1, Len(got))
           /\ (last.result = "text" /\ last.text.head = "Found") =>
                 /\ got = listed
                 /\ last.text.n = Len(listed)
                 /\ Len(last.text.emails) = Len(listed)
                 /\ \A i \in DOMAIN listed :
                       last.text.emails[i] =
                           parse_gmail_message(StoredMessage(listed[i])).value

\* a listing that is not in identifier order, fetched and reported as listed
C15_Witness ==
    /\ last.name = "search_emails"
    /\ IdsOf("listed") = <<2, 1>>
    /\ IdsOf("get") = <<2, 1>>
    /\ last.text.head = "Found"
    /\ last.text.emails[1].id = 2 /\ last.text.emails[2].id = 1

\* C16: a tool call that ends in an error envelope leaves the state usable:
\* when a remote mailbox call failed, the session cache and the token file
\* are as the authorization step of that call left them (untouched when the
\* session was already cached); when the authorization failed, no session
\* is cached and the token file is unchanged.
C16_ErrorsLeaveStateIntact ==
    (last.result = "text" /\ last.text.head = ErrorMarker) =>
        /\ (RemoteFailed /\ last.preService.built) =>
              /\ last.postService = last.preService
              /\ last.postToken = last.preToken
        /\ (RemoteFailed /\ ~last.preService.built) =>
              /\ last.postService.built
              /\ last.postService = last.session
              /\ last.postToken = to_json(last.session.creds)
        /\ (last.authRaised # "none") =>
              /\ ~last.postService.built
              /\ last.postToken = last.preToken

\* C19: a tool call that ends with a session cached leaves in the token
\* file the record that session was built from: a call that caches a new
\* session has loaded that record from the file or written it there before
\* building the session, a call that finds the session cached does not touch
\* the file, and no session is cached by a call whose token write did not
\* complete.
C19_CacheImpliesPersisted ==
    [][(calls' = calls + 1) =>
          /\ (gmail_service'.built /\ ~gmail_service.built) =>
                /\ tokenFile'.state = "record"
                /\ tokenFile' = to_json(gmail_service'.creds)
                /\ \A i, j \in DOMAIN last'.events :
                      (last'.events[i].op = "write"
                          /\ last'.events[j].op = "build") => i < j
          /\ (gmail_service'.built /\ gmail_service.built) =>
                /\ gmail_service' = gmail_service
                /\ tokenFile' = tokenFile
          /\ (\E i \in DOMAIN last'.events :
                 last'.events[i].op = "write_failed")
                => ~gmail_service'.built]_vars

\* a session cached after its record was written, still backed by the file
\* when a later call reuses it
C19_Witness ==
    /\ tokenWrites = 1
    /\ last.preService.built
    /\ last.authCalled
    /\ gmail_service.built
    /\ tokenFile = to_json(gmail_service.creds)

\* C20: mark_as_read issues its modify calls in listing order and stops at
\* the first one that fails: when the k-th modify fails, the modify calls
\* issued are those for the first k listed messages, in order, exactly the
\* first k-1 messages have lost their unread label, no modify is issued for
\* the rest, and the result is an error envelope that reports no count.
C20_StopsAtFirstFailure ==
    (last.name = "mark_as_read" /\ Has("modify_failed")) =>
        LET listed == IdsOf("listed")
            k == Count("modify")
        IN /\ Count("modify_failed") = 1
           /\ k \in 1..Len(listed)
           /\ IdsOf("modify") = SubSeq(listed, 1, k)
           /\ IdsOf("modify_failed") = <<listed[k]>>
           /\ last.events[Len(last.events)].op = "modify_failed"
           /\ last.postUnread =
                 last.preUnread \ {listed[i] : i \in 1..(k - 1)}
           /\ last.result = "text"
           /\ last.text.head = ErrorMarker
           /\ last.text.n = 0

\* the first modify succeeded and the second failed: one label removed
C20_Witness ==
    /\ last.name = "mark_as_read"
    /\ Has("modify_failed")
    /\ Count("modify") = 2
    /\ Cardinality(last.preUnread \ last.postUnread) = 1
    /\ last.text.head = ErrorMarker

\* the body the normalizer is to produce: the decoded text of the first
\* text/plain part when there is a parts array (empty when no part is
\* text/plain or the part carries no text), the decoded direct body data
\* when there is no parts array, and empty otherwise
UsableText(m) ==
    IF m.hasParts
    THEN IF \E i \in DOMAIN m.parts : m.parts[i].mimeType = "text/plain"
         THEN LET i == FirstPlain(m.parts)
              IN IF m.parts[i].hasData
                 THEN strip(b64decode(m.parts[i].data)) ELSE ""
         ELSE ""
    ELSE IF m.hasBody /\ m.hasData THEN strip(b64decode(m.data)) ELSE ""

\* the requests that have entered their handler and not yet returned
InFlight == {t \in Tasks : pc[t] \in {"authorizing", "remote", "returning"}}

\* C17: requests are served one at a time: at most one request is between
\* entering its handler and returning from it, it is the one that holds the
\* thread, so no request is inside get_gmail_service while another has a
\* mailbox operation in flight, no two are inside get_gmail_service
\* together, and the token file is written by at most one of them.
C17_OneRequestAtATime ==
    /\ Cardinality(InFlight) <= 1
    /\ InFlight = (IF running = 0 THEN {} ELSE {running})
    /\ tokenWrites <= 1
    /\ \A t \in Tasks : pc[t] = "pending" => pend[t] = NoPending

\* one request has written the token file and returned, the next one is at
\* its remote call on the cached session, a third may still be waiting
C17_Witness ==
    \E t1, t2 \in Tasks :
        /\ pc[t1] = "done"
        /\ pc[t2] = "remote"
        /\ tokenWrites = 1
        /\ pend[t2].preService.built

\* C18: parse_gmail_message fails on no message: without usable body text
\* the body is the empty string; with a parts array it is the decoded text
\* of the first text/plain part of the depth-one scan; without one it is the
\* decoded direct body data; and each of From, To, Subject and Date that is
\* absent comes out as the empty string.
C18_NormalizerNeverFails ==
    (parsed # NotParsed) =>
        /\ parsed.raised = "none"
        /\ parsed.value.id = msg.id
        /\ parsed.value.body = UsableText(msg)
        /\ parsed.value.from =
              (IF "From" \in DOMAIN msg.headers THEN msg.headers["From"] ELSE "")
        /\ parsed.value.to =
              (IF "To" \in DOMAIN msg.headers THEN msg.headers["To"] ELSE "")
        /\ parsed.value.subject =
              (IF "Subject" \in DOMAIN msg.headers THEN msg.headers["Subject"]
               ELSE "")
        /\ parsed.value.date =
              (IF "Date" \in DOMAIN msg.headers THEN msg.headers["Date"] ELSE "")

TypeOK ==
    /\ gmail_service.built \in BOOLEAN
    /\ tokenFile.state \in {"absent", "corrupt", "record"}
    /\ calls \in 0..MaxCalls
    /\ unread \subseteq Ids

====
